---- MODULE Spec2Model ----
(***************************************************************************)
(* Model of src/main.rs: the Renderable trait, its two implementations     *)
(* (RedTriangle, ImageQuad) and the event-loop callback of main that       *)
(* drives them once per delivered event.                                   *)
(*                                                                         *)
(* Time is a natural number of nanoseconds read from a monotonic clock     *)
(* (std::time::Instant).  An f32 is kept as a term: either a literal of    *)
(* the source (in hundredths) or cos applied to an f32 argument; the       *)
(* u128 -> f32 conversion of `as f32` is computed (24-bit significand,     *)
(* round to nearest, ties to even).                                        *)
(***************************************************************************)
EXTENDS Integers, Naturals, Sequences, FiniteSets, TLC

VARIABLES
    clock,            \* latest value returned by Instant::now()
    last_time,        \* main: captured `last_time`
    now,              \* callback local `now`
    delta,            \* callback local `delta`
    next_frame_time,  \* callback local `next_frame_time`
    ev,               \* the event delivered to the running/last invocation
    pc,               \* position inside the callback
    inabox,           \* the boxed RedTriangle
    quad,             \* the ImageQuad
    target,           \* the Frame of the running/last invocation
    control_flow,     \* *control_flow as the callback leaves it
    loop_exit,        \* the event loop has seen ControlFlow::Exit (sticky)
    last_result,      \* result of the latest fallible step
    trace,            \* steps executed by the running/last invocation
    sum_delta,        \* sum of every delta computed so far
    invocations       \* number of callback invocations started

vars == << clock, last_time, now, delta, next_frame_time, ev, pc, inabox, quad,
           target, control_flow, loop_exit, last_result, trace, sum_delta,
           invocations >>

----------------------------------------------------------------------------
(* Bounds *)

\* number of callback invocations explored
MaxInvocations == 3

\* 2^24: the first natural number whose successor is not an f32
TwoPow24 == 2 * 2 * 2 * 2 * 2 * 2 * 2 * 2 * 2 * 2 * 2 * 2 * 2 * 2 * 2 * 2 * 2 * 2 * 2 * 2 * 2 * 2 * 2 * 2

\* nanoseconds the clock may advance between two invocations
Deltas == {0, 1, 2, TwoPow24 + 1}

\* nanoseconds between the two Instant::now() calls of one invocation
Jitters == {0, 1}

----------------------------------------------------------------------------
(* Values *)

\* an f32 literal of the source, in hundredths
F32Lit(h) == [k |-> "lit", v |-> h]

\* f32::cos applied to the f32 whose (integral) value is x
F32Cos(x) == [k |-> "cos", v |-> x]

RECURSIVE Ulp(_)
\* spacing of the f32 grid around n: the power of two that leaves 24 bits
Ulp(n) == IF n < TwoPow24 THEN 1 ELSE 2 * Ulp(n \div 2)

\* `n as f32` for an unsigned n: round to nearest, ties to even
AsF32(n) ==
    LET u == Ulp(n)
        q == n \div u
        r == n % u
        up == (2 * r > u) \/ (2 * r = u /\ q % 2 = 1)
    IN  IF up THEN (q + 1) * u ELSE q * u

Vertex(x, y) == [position |-> << x, y >>]

DefaultParams == [viewport |-> "None", backface_culling |-> "CullingDisabled"]

\* the period added to Instant::now() for the wake-up deadline (ns)
FramePeriod == 16666667

\* the instant held by last_time when the closure is created
StartTime == 0

WindowEvent(e) == [kind |-> "WindowEvent", event |-> e]
OtherEvent(k) == [kind |-> k, event |-> "-"]

CloseRequested == WindowEvent("CloseRequested")
LoopDestroyed == OtherEvent("LoopDestroyed")

\* events the windowing layer delivers while the loop runs
RunningEvents ==
    { CloseRequested, WindowEvent("Resized"), WindowEvent("KeyboardInput"),
      OtherEvent("MainEventsCleared") }

WaitUntil(t) == [kind |-> "WaitUntil", at |-> t]
Exit == [kind |-> "Exit", at |-> 0]
Poll == [kind |-> "Poll", at |-> 0]

NoFrame == [begun_at |-> 0, cleared |-> FALSE, draws |-> << >>, finished |-> FALSE]

----------------------------------------------------------------------------
(* RedTriangle *)

RedTriangle_shape ==
    << Vertex(F32Lit(-50), F32Lit(-50)),
       Vertex(F32Lit(0), F32Lit(50)),
       Vertex(F32Lit(50), F32Lit(-25)) >>

RedTriangle_new == [vertices |-> RedTriangle_shape, program |-> "red"]

RedTriangle_custom_render(self, params, ok) ==
    [call |-> [vertices |-> self.vertices,
               indices |-> [kind |-> "NoIndices", prim |-> "TrianglesList", data |-> << >>],
               program |-> self.program,
               uniforms |-> "EmptyUniforms",
               params |-> params],
     result |-> IF ok THEN "Ok" ELSE "Err"]

RedTriangle_render_nondefault(self, ok) ==
    RedTriangle_custom_render(self,
        [viewport |-> "100x100", backface_culling |-> "CullCounterClockwise"], ok)

RedTriangle_render(self, ok) == RedTriangle_custom_render(self, DefaultParams, ok)

RedTriangle_mutate_wrong_vertex(data, d) ==
    [data EXCEPT ![2].position[1] = F32Cos(AsF32(d))]

\* data[0].position[0] = (delta.as_nanos() as f32).cos()
RedTriangle_mutate(data, d) ==
    [data EXCEPT ![1].position[1] = F32Cos(AsF32(d))]

\* read() failing returns early through `?`; otherwise the copy is changed
\* and written back
RedTriangle_update(self, d, read_ok) ==
    IF ~read_ok
    THEN [self |-> self, result |-> "Err"]
    ELSE [self |-> [self EXCEPT !.vertices = RedTriangle_mutate(self.vertices, d)],
          result |-> "Ok"]

----------------------------------------------------------------------------
(* ImageQuad *)

ImageQuad_shape ==
    << Vertex(F32Lit(0), F32Lit(0)),
       Vertex(F32Lit(0), F32Lit(100)),
       Vertex(F32Lit(10), F32Lit(100)),
       Vertex(F32Lit(10), F32Lit(0)) >>

ImageQuad_data_out_of_range == << 0, 1, 2, 0, 2, 4 >>

ImageQuad_data == << 0, 1, 2, 0, 2, 3 >>

ImageQuad_new ==
    [vertices |-> ImageQuad_shape,
     indices |-> [kind |-> "IndexBuffer", prim |-> "TrianglesList", data |-> ImageQuad_data],
     texture |-> "D18.png",
     program |-> "image"]

ImageQuad_custom_render(self, params, ok) ==
    [call |-> [vertices |-> self.vertices,
               indices |-> self.indices,
               program |-> self.program,
               uniforms |-> [image |-> self.texture],
               params |-> params],
     result |-> IF ok THEN "Ok" ELSE "Err"]

ImageQuad_render(self, ok) == ImageQuad_custom_render(self, DefaultParams, ok)

----------------------------------------------------------------------------
(* main: the event-loop callback *)

Delta_since_start(n, last) == n - StartTime

\* let delta = now - last_time
Delta(n, last) == n - last

\* Instant::now() + Duration::from_nanos(16_666_667)
NextFrameTime(t) == t + FramePeriod

NextStep_render_before_update(s) ==
    CASE s = "begin" -> "quad_render"
      [] s = "quad_render" -> "tri_render"
      [] s = "tri_render" -> "update"
      [] s = "update" -> "finish"
      [] s = "finish" -> "flow"

NextStep_no_finish(s) ==
    CASE s = "begin" -> "quad_render"
      [] s = "quad_render" -> "update"
      [] s = "update" -> "tri_render"
      [] s = "tri_render" -> "flow"
      [] s = "finish" -> "flow"

\* the statement order of the closure body
NextStep(s) ==
    CASE s = "begin" -> "quad_render"
      [] s = "quad_render" -> "update"
      [] s = "update" -> "tri_render"
      [] s = "tri_render" -> "finish"
      [] s = "finish" -> "flow"

After_ignoring_errors(s, result) == NextStep(s)

\* .unwrap(): an Err panics, which ends the process
After(s, result) == IF result = "Ok" THEN NextStep(s) ELSE "panicked"

ControlFlowFor_any_window_event(e, nft) ==
    IF e.kind = "WindowEvent" THEN Exit ELSE WaitUntil(nft)

\* *control_flow = WaitUntil(next_frame_time); match ev { ... }
ControlFlowFor(e, nft) ==
    IF e.kind = "WindowEvent" /\ e.event = "CloseRequested"
    THEN Exit
    ELSE WaitUntil(nft)

Init ==
    /\ clock = StartTime
    /\ last_time = StartTime
    /\ now = StartTime
    /\ delta = 0
    /\ next_frame_time = 0
    /\ ev = OtherEvent("NewEvents")
    /\ pc = "idle"
    /\ inabox = RedTriangle_new
    /\ quad = ImageQuad_new
    /\ target = NoFrame
    /\ control_flow = Poll
    /\ loop_exit = FALSE
    /\ last_result = "Ok"
    /\ trace = << >>
    /\ sum_delta = 0
    /\ invocations = 0

\* lines 259-266: read the clock, compute delta, begin and clear the frame
Invoke(e, d, j) ==
    /\ pc = "idle"
    /\ invocations < MaxInvocations
    /\ IF loop_exit THEN e = LoopDestroyed ELSE e \in RunningEvents
    /\ invocations' = invocations + 1
    /\ ev' = e
    /\ now' = clock + d
    /\ delta' = Delta(now', last_time)
    /\ sum_delta' = sum_delta + delta'
    /\ last_time' = now'
    /\ clock' = now' + j
    /\ next_frame_time' = NextFrameTime(clock')
    /\ target' = [begun_at |-> clock', cleared |-> TRUE, draws |-> << >>, finished |-> FALSE]
    /\ trace' = << "draw", "clear" >>
    /\ pc' = NextStep("begin")
    /\ UNCHANGED << inabox, quad, control_flow, loop_exit, last_result >>

\* line 268: quad.render(&mut target).unwrap()
QuadRender(ok) ==
    /\ pc = "quad_render"
    /\ LET r == ImageQuad_render(quad, ok)
       IN  /\ target' = [target EXCEPT !.draws = Append(@, r)]
           /\ last_result' = r.result
           /\ pc' = After("quad_render", r.result)
    /\ trace' = Append(trace, "quad_render")
    /\ UNCHANGED << clock, last_time, now, delta, next_frame_time, ev, inabox, quad,
                    control_flow, loop_exit, sum_delta, invocations >>

\* line 270: inabox.update(delta).context("must update").unwrap()
Update(read_ok) ==
    /\ pc = "update"
    /\ LET r == RedTriangle_update(inabox, delta, read_ok)
       IN  /\ inabox' = r.self
           /\ last_result' = r.result
           /\ pc' = After("update", r.result)
    /\ trace' = Append(trace, "update")
    /\ UNCHANGED << clock, last_time, now, delta, next_frame_time, ev, quad, target,
                    control_flow, loop_exit, sum_delta, invocations >>

\* line 271: inabox.render(&mut target).context("render error").unwrap()
TriRender(ok) ==
    /\ pc = "tri_render"
    /\ LET r == RedTriangle_render(inabox, ok)
       IN  /\ target' = [target EXCEPT !.draws = Append(@, r)]
           /\ last_result' = r.result
           /\ pc' = After("tri_render", r.result)
    /\ trace' = Append(trace, "tri_render")
    /\ UNCHANGED << clock, last_time, now, delta, next_frame_time, ev, inabox, quad,
                    control_flow, loop_exit, sum_delta, invocations >>

\* line 273: target.finish().unwrap()
Finish(ok) ==
    /\ pc = "finish"
    /\ target' = [target EXCEPT !.finished = ok]
    /\ last_result' = IF ok THEN "Ok" ELSE "Err"
    /\ pc' = After("finish", last_result')
    /\ trace' = Append(trace, "finish")
    /\ UNCHANGED << clock, last_time, now, delta, next_frame_time, ev, inabox, quad,
                    control_flow, loop_exit, sum_delta, invocations >>

\* lines 275-285: set the control flow and return; the loop stops after the
\* invocation that delivers LoopDestroyed
Flow ==
    /\ pc = "flow"
    /\ control_flow' = ControlFlowFor(ev, next_frame_time)
    /\ loop_exit' = (loop_exit \/ control_flow' = Exit)
    /\ pc' = IF ev = LoopDestroyed THEN "stopped" ELSE "idle"
    /\ UNCHANGED << clock, last_time, now, delta, next_frame_time, ev, inabox, quad,
                    target, last_result, trace, sum_delta, invocations >>

Next ==
    \/ \E e \in RunningEvents \cup {LoopDestroyed}, d \in Deltas, j \in Jitters :
          Invoke(e, d, j)
    \/ \E ok \in BOOLEAN : QuadRender(ok)
    \/ \E ok \in BOOLEAN : Update(ok)
    \/ \E ok \in BOOLEAN : TriRender(ok)
    \/ \E ok \in BOOLEAN : Finish(ok)
    \/ Flow

Spec == Init /\ [][Next]_vars

----------------------------------------------------------------------------
(* Helpers for the properties *)

Count(seq, x) == Cardinality({ i \in 1..Len(seq) : seq[i] = x })

IsPrefix(s, t) == Len(s) <= Len(t) /\ \A i \in 1..Len(s) : s[i] = t[i]

\* update has succeeded in the running/last invocation
Updated ==
    /\ Count(trace, "update") > 0
    /\ ~(pc = "panicked" /\ trace[Len(trace)] = "update")

\* the invocation has returned to the event loop
Returned == pc \in {"idle", "stopped"} /\ invocations > 0

Vertex0X == inabox.vertices[1].position[1]

----------------------------------------------------------------------------
(* Properties *)

\* C1: after any successful update (taken while the loop is running),
\* vertex 0's X is cos of the cumulative elapsed nanoseconds, i.e. of the
\* sum of all deltas passed so far.
C1_XIsCosOfCumulativeTime ==
    (Updated /\ ~loop_exit) => Vertex0X = F32Cos(AsF32(sum_delta))

\* C2: across updates the triangle keeps 3 vertices, vertex 1 stays
\* [0.0, 0.5], vertex 2 stays [0.5, -0.25] and vertex 0's Y stays -0.5.
C2_OnlyVertex0XChanges ==
    /\ Len(inabox.vertices) = 3
    /\ inabox.vertices[2] = Vertex(F32Lit(0), F32Lit(50))
    /\ inabox.vertices[3] = Vertex(F32Lit(50), F32Lit(-25))
    /\ inabox.vertices[1].position[2] = F32Lit(-50)
    /\ inabox.program = "red"

\* C2 witness: two invocations in, update has replaced vertex 0's X by the
\* cosine of a delta that `as f32` had to round.
C2_Witness ==
    /\ invocations >= 2
    /\ Updated
    /\ delta = TwoPow24 + 1
    /\ Vertex0X = F32Cos(TwoPow24)

\* C3: every draw call a render issued is the call custom_render issues with
\* default-constructed parameters for the same drawable, with the same
\* result: the quad's comes first, the triangle's second, and nothing else
\* is drawn.
C3_RenderIsCustomRenderWithDefaults ==
    /\ Len(target.draws) <= 2
    /\ \A i \in 1..Len(target.draws) :
          LET r == target.draws[i]
          IN  /\ r.call.params = DefaultParams
              /\ i = 1 => r = ImageQuad_custom_render(quad, DefaultParams, r.result = "Ok")
              /\ i = 2 => r = RedTriangle_custom_render(inabox, DefaultParams, r.result = "Ok")

\* C3 witness: both drawables have been rendered in an invocation in which
\* the triangle had been animated.
C3_Witness ==
    /\ Len(target.draws) = 2
    /\ target.draws[1].call.program = "image"
    /\ target.draws[2].call.program = "red"
    /\ target.draws[2].call.vertices[1].position[1] = F32Cos(2)

ClaimedOrder == << "draw", "clear", "quad_render", "tri_render", "update", "finish" >>

CodeOrder == << "draw", "clear", "quad_render", "update", "tri_render", "finish" >>

\* C4 (as stated): in every iteration the frame is cleared, the quad is
\* rendered, the triangle is rendered, then update is invoked, then the
\* frame is presented.
C4_UpdateAfterRenders == IsPrefix(trace, ClaimedOrder)

\* C4 (amended): in every iteration the frame is cleared, the quad is
\* rendered, update is invoked on the triangle, the triangle is rendered,
\* then the frame is presented; an iteration that returns has done all of
\* these.
C4_UpdateBetweenRenders ==
    /\ IsPrefix(trace, CodeOrder)
    /\ Returned => trace = CodeOrder

\* C4 witness: an iteration has run to its end.
C4_Witness == Returned /\ trace = CodeOrder /\ target.finished

\* C5: the loop leaves Running in an invocation iff its event is the window
\* event CloseRequested; for every other event the control flow on return is
\* WaitUntil of a deadline FramePeriod after a clock reading taken at the
\* start of the callback (not before `now`, not after the frame was begun),
\* and setting the control flow changes no drawable.
C5_ExitIffCloseRequested ==
    [][ pc = "flow" =>
          /\ (control_flow' = Exit) <=> (ev = CloseRequested)
          /\ ~loop_exit => (loop_exit' <=> ev = CloseRequested)
          /\ ev # CloseRequested =>
                /\ control_flow'.kind = "WaitUntil"
                /\ control_flow'.at - FramePeriod \in last_time..target.begun_at
                /\ control_flow'.at = next_frame_time
          /\ inabox' = inabox
          /\ quad' = quad ]_vars

\* C5 witness: an invocation delivering a resize has returned with a
\* deadline, and the loop is still running.
C5_Witness ==
    /\ Returned
    /\ ev = WindowEvent("Resized")
    /\ control_flow = WaitUntil(last_time + 1 + FramePeriod)
    /\ ~loop_exit

\* C6: a failed step aborts the run: the failing step ends in the panicked
\* position without writing the vertex buffer, presenting the frame or
\* setting the control flow, and after a failure no step of any iteration
\* executes.
C6_FailureAborts ==
    [][ /\ last_result # "Err"
        /\ last_result' = "Err" =>
              /\ pc' = "panicked"
              /\ inabox' = inabox
              /\ ~target'.finished
              /\ control_flow' = control_flow
              /\ invocations' = invocations ]_vars

\* C6 witness: the buffer read inside update failed in a later iteration.
C6_Witness ==
    /\ pc = "panicked"
    /\ last_result = "Err"
    /\ invocations >= 2
    /\ trace = << "draw", "clear", "quad_render", "update" >>

\* C7: the quad's index buffer is [0,1,2,0,2,3]; every index names one of
\* the 4 vertices; the 6 indices are two triangles that share the diagonal
\* 0-2 and use all four vertices; every quad draw call passes these buffers.
C7_QuadIndexBuffer ==
    LET data == quad.indices.data
        t1 == { data[1], data[2], data[3] }
        t2 == { data[4], data[5], data[6] }
    IN  /\ data = << 0, 1, 2, 0, 2, 3 >>
        /\ Len(quad.vertices) = 4
        /\ \A i \in 1..Len(data) : data[i] \in 0..(Len(quad.vertices) - 1)
        /\ quad.indices.prim = "TrianglesList"
        /\ Len(data) = 6
        /\ Cardinality(t1) = 3 /\ Cardinality(t2) = 3
        /\ t1 \cap t2 = {0, 2}
        /\ t1 \cup t2 = 0..3
        /\ \A i \in 1..Len(target.draws) :
              target.draws[i].call.program = "image" =>
                 /\ target.draws[i].call.vertices = quad.vertices
                 /\ target.draws[i].call.indices = quad.indices

\* C7 witness: the quad has been drawn in a second frame.
C7_Witness ==
    /\ invocations >= 2
    /\ Len(target.draws) >= 1
    /\ target.draws[1].call.indices.data = << 0, 1, 2, 0, 2, 3 >>
    /\ target.draws[1].result = "Ok"

\* C8: every invocation, whatever its event, reads the clock, passes the
\* time since the previous reading as delta and stores the reading in
\* last_time; last_time never decreases and the deltas so far sum to the
\* time between the initial last_time and the latest invocation.
C8_DeltaIsTimeBetweenInvocations ==
    [][ /\ last_time' >= last_time
        /\ sum_delta' = last_time' - StartTime
        /\ IF invocations' # invocations
           THEN /\ now' >= clock
                /\ last_time' = now'
                /\ delta' = now' - last_time
           ELSE /\ last_time' = last_time
                /\ delta' = delta
        /\ (pc = "update" /\ pc' # "panicked") =>
              inabox'.vertices[1].position[1] = F32Cos(AsF32(last_time - (sum_delta - delta) - StartTime)) ]_vars

\* C8 witness: a third invocation, delivering an ignored window event, has
\* advanced last_time.
C8_Witness ==
    /\ invocations = 3
    /\ ev = WindowEvent("KeyboardInput")
    /\ delta = 2
    /\ sum_delta = TwoPow24 + 4
    /\ last_time = StartTime + sum_delta
    /\ Updated

\* C9: once an invocation has set the control flow to Exit, no later
\* invocation runs a step of the callback or sets the control flow back to
\* WaitUntil.
C9_TerminatingIsAbsorbing ==
    loop_exit => (pc \in {"idle", "stopped"} /\ control_flow = Exit)

\* C10: an invocation that returns has begun exactly one frame, presented
\* it exactly once and called update exactly once, whatever its event; no
\* step is ever repeated within an invocation.
C10_OneFramePerInvocation ==
    /\ Count(trace, "draw") <= 1
    /\ Count(trace, "finish") <= 1
    /\ Count(trace, "update") <= 1
    /\ Returned =>
          /\ Count(trace, "draw") = 1
          /\ Count(trace, "finish") = 1
          /\ Count(trace, "update") = 1
          /\ target.finished
          /\ last_result = "Ok"

\* C10 witness: the invocation that handled the close request has returned
\* with its frame presented.
C10_Witness ==
    /\ Returned
    /\ ev = CloseRequested
    /\ control_flow = Exit
    /\ target.finished
    /\ Count(trace, "update") = 1

====
